---------------------------- MODULE Spec2Model ----------------------------
(* Validators for COALA IP models (coalaip/model_validators.py).          *)
(*                                                                         *)
(* Every validator is a synchronous function of (instance, attribute,      *)
(* value) that either returns or raises.  A call is one step of the state  *)
(* machine: the inputs are fixed by the initial state, the step records    *)
(* the validator that was called, its outcome, and the functions that      *)
(* were entered while it ran, in order.                                    *)
EXTENDS Naturals, Sequences, FiniteSets, TLC

VARIABLES pc, instance, attribute, value, validator, outcome, calls

vars == <<pc, instance, attribute, value, validator, outcome, calls>>

(***************************************************************************)
(* Bounds of the checked input space.                                      *)
(***************************************************************************)
\* Largest number of keys of a candidate mapping.
MaxKeys == 3
\* Largest number of forbidden keys handed to does_not_contain.
MaxAvoid == 2

(***************************************************************************)
(* Python objects.  An object is its class, its text (what str() gives)    *)
(* and, for a dict, its items.  None, True and False are singletons, so    *)
(* identity on them is equality of class and text.                         *)
(***************************************************************************)
NoItems == <<>>

\* The cells of a function that closes over nothing.
NoClosure == <<>>

PyObj(cls, repr) ==
    [cls |-> cls, repr |-> repr, items |-> NoItems, closure |-> NoClosure]

PyDict(items) ==
    [cls |-> "dict", repr |-> "{...}", items |-> items, closure |-> NoClosure]

None == PyObj("NoneType", "None")

PyTrue == PyObj("bool", "True")

PyFalse == PyObj("bool", "False")

\* A function object, named by its text.
PyFunction(name) == PyObj("function", name)

\* A function object that closes over the given cells.
PyClosure(name, cells) ==
    [cls |-> "function", repr |-> name, items |-> NoItems, closure |-> cells]

\* The method resolution order of the classes that occur: bool derives
\* from int, Title is a user subclass of str.
MRO(cls) ==
    CASE cls = "bool"  -> {"bool", "int", "object"}
      [] cls = "Title" -> {"Title", "str", "object"}
      [] OTHER         -> {cls, "object"}

\* type(obj) is cls: the exact runtime type, subclasses excluded.
type_is(obj, cls) == obj.cls = cls

isinstance(obj, cls) == cls \in MRO(obj.cls)

callable(obj) == obj.cls \in {"function", "type"}

\* The numeric value of an int or bool object (bool is an int in Python).
NumValue(obj) == IF obj.repr \in {"1", "True"} THEN 1 ELSE 0

\* a == b of Python: numbers compare by value across int and bool.
PyEq(a, b) ==
    IF isinstance(a, "int") /\ isinstance(b, "int")
    THEN NumValue(a) = NumValue(b)
    ELSE a.cls = b.cls /\ a.repr = b.repr

\* a is b, where b is one of the singletons None, True, False.
Is(a, b) == a.cls = b.cls /\ a.repr = b.repr

\* bool(obj): the truth value Python coerces an object to.
Truthy(obj) ==
    CASE obj.cls = "NoneType"       -> FALSE
      [] isinstance(obj, "int")     -> NumValue(obj) # 0
      [] isinstance(obj, "str")     -> obj.repr # ""
      [] obj.cls = "dict"           -> DOMAIN obj.items # {}
      [] OTHER                      -> TRUE

\* if value.get(key): the key is there with a value that is true.
ContainsTruthy(obj, key) ==
    key \in DOMAIN obj.items /\ Truthy(obj.items[key])

\* key in value
Contains(obj, key) == key \in DOMAIN obj.items

\* value.get(key): the default that was passed is dropped.
GetWithoutDefault(obj, key, default) ==
    IF key \in DOMAIN obj.items THEN obj.items[key] ELSE None

\* value.get(key, default)
Get(obj, key, default) ==
    IF key \in DOMAIN obj.items THEN obj.items[key] ELSE default

\* str(obj), as the pieces of text it contributes to a message.
Str(obj) == <<obj.repr>>

(***************************************************************************)
(* Text.  A string is a sequence of pieces.  A format template is the      *)
(* sequence of its literal pieces and of the tokens of str.format's        *)
(* grammar: "{" name "}" is a named field, "{" "}" a positional field,     *)
(* "{{" and "}}" are the escapes of a literal brace.                      *)
(***************************************************************************)
RECURSIVE FormatFrom(_, _, _, _, _)
FormatFrom(template, args, kwargs, i, pos) ==
    IF i > Len(template) THEN <<>>
    ELSE IF template[i] = "{{"
         THEN <<"{">> \o FormatFrom(template, args, kwargs, i + 1, pos)
    ELSE IF template[i] = "}}"
         THEN <<"}">> \o FormatFrom(template, args, kwargs, i + 1, pos)
    ELSE IF template[i] = "{"
         THEN IF template[i + 1] = "}"
              THEN args[pos] \o FormatFrom(template, args, kwargs, i + 2, pos + 1)
              ELSE kwargs[template[i + 1]]
                       \o FormatFrom(template, args, kwargs, i + 3, pos)
    ELSE <<template[i]>> \o FormatFrom(template, args, kwargs, i + 1, pos)

\* template.format(args..., kwargs...); keyword arguments the template does
\* not name are ignored, as str.format ignores them.
Format(template, args, kwargs) == FormatFrom(template, args, kwargs, 1, 1)

\* sep.join(keys)
RECURSIVE Join(_, _)
Join(sep, keys) ==
    IF Len(keys) = 0 THEN <<>>
    ELSE IF Len(keys) = 1 THEN <<keys[1]>>
    ELSE <<keys[1], sep>> \o Join(sep, Tail(keys))

Range(s) == {s[i] : i \in DOMAIN s}

(***************************************************************************)
(* Outcomes and results of a call.                                         *)
(***************************************************************************)
Return(v) == [kind |-> "return", exc |-> "", msg |-> <<>>, value |-> v]

Raise(exc, msg) == [kind |-> "raise", exc |-> exc, msg |-> msg, value |-> None]

NoOutcome == [kind |-> "none", exc |-> "", msg |-> <<>>, value |-> None]

\* The entry of a function, with the arguments it was given.
Entered(fn, inst, attr, val) == [fn |-> fn, args |-> <<inst, attr, val>>]

Result(out, entered) == [outcome |-> out, calls |-> entered]

\* Looking up an attribute the object does not have.
NoAttribute(obj, name) ==
    Raise("AttributeError",
          <<"'", obj.cls, "' object has no attribute '", name, "'">>)

\* Calling an object that is not callable.
NotCallable(obj) ==
    Raise("TypeError", <<"'", obj.cls, "' object is not callable">>)

\* instance.__class__.__name__
ClassName(inst) == inst.cls

(***************************************************************************)
(* The validators.  Each operator is the function of the same name and     *)
(* gives the call's outcome and the functions entered, itself first.       *)
(***************************************************************************)
RECURSIVE Call(_, _, _, _)

\* is_callable raising the default error class of the combinators.
is_callable_value_error(inst, attr, val) ==
    Result(IF ~callable(val)
           THEN Raise("ValueError",
                      Format(<<"'", "{", "}", "' must be callable">>,
                             <<<<attr.name>>>>, <<>>))
           ELSE Return(None),
           <<Entered("is_callable", inst, attr, val)>>)

is_callable(inst, attr, val) ==
    Result(IF ~callable(val)
           THEN Raise("TypeError",
                      Format(<<"'", "{", "}", "' must be callable">>,
                             <<<<attr.name>>>>, <<>>))
           ELSE Return(None),
           <<Entered("is_callable", inst, attr, val)>>)

\* use_model_attr(attr): the validator use_model_validator closed over attr.
use_model_attr(attr) == PyClosure("use_model_validator", [attr |-> attr])

\* use_model_validator inside a try/except that swallows the failure of
\* the validator it delegates to.
use_model_validator_swallows(self, inst, attr, val) ==
    LET entry == <<Entered("use_model_validator", inst, attr, val)>>
        name  == self.closure.attr
    IN  IF name \notin DOMAIN inst.attrs
        THEN Result(NoAttribute(inst, name), entry)
        ELSE LET r == Call(inst.attrs[name], inst, attr, val)
             IN  Result(Return(None), entry \o r.calls)

\* use_model_validator(instance, attribute, value), self being the closure.
use_model_validator(self, inst, attr, val) ==
    LET entry == <<Entered("use_model_validator", inst, attr, val)>>
        name  == self.closure.attr
    IN  IF name \notin DOMAIN inst.attrs
        THEN Result(NoAttribute(inst, name), entry)
        ELSE LET r == Call(inst.attrs[name], inst, attr, val)
             IN  Result(IF r.outcome.kind = "raise" THEN r.outcome
                        ELSE Return(None),
                        entry \o r.calls)

\* does_not_contain(avoid_keys..., error_cls)(func): the validator
\* not_contains closed over avoid_keys, error_cls and func.
does_not_contain(avoid_keys, error_cls, func) ==
    PyClosure("not_contains",
              [avoid_keys |-> avoid_keys, error_cls |-> error_cls, func |-> func])

\* The error not_contains raises when num_matched_keys of the forbidden
\* keys are keys of the value.
ForbiddenKeysError(self, inst, attr, num_matched_keys) ==
    LET instance_name  == ClassName(inst)
        avoid_keys_str == Join(", ", self.closure.avoid_keys)
        err_str ==
            Format(<<"Given keys (", "{", "num_matched", "}",
                     " of ", "{{", "avoid_keys", "}}",
                     " that must not be given in the '",
                     "{", "attr", "}", "' of a '",
                     "{", "cls", "}", "'">>,
                   <<>>,
                   [num_matched |-> <<ToString(num_matched_keys)>>,
                    avoid_keys  |-> avoid_keys_str,
                    attr        |-> <<attr.name>>,
                    cls         |-> <<instance_name>>])
    IN  Raise(self.closure.error_cls, err_str)

\* len(set(avoid_keys) & value.keys())
NumMatchedKeys(avoid_keys, val) ==
    Cardinality(Range(avoid_keys) \cap DOMAIN val.items)

\* not_contains with the wrapped validator called first and the forbidden
\* keys looked for after it returned.
not_contains_checks_last(self, inst, attr, val) ==
    LET entry == <<Entered("not_contains", inst, attr, val)>>
        r     == Call(self.closure.func, inst, attr, val)
    IN  IF r.outcome.kind = "raise" THEN Result(r.outcome, entry \o r.calls)
        ELSE LET num_matched_keys ==
                     NumMatchedKeys(self.closure.avoid_keys, val)
             IN  IF num_matched_keys > 0
                 THEN Result(ForbiddenKeysError(self, inst, attr,
                                                num_matched_keys),
                             entry \o r.calls)
                 ELSE Result(r.outcome, entry \o r.calls)

\* not_contains without the return in front of the call of the wrapped
\* validator: what it returns is dropped.
not_contains_drops_result(self, inst, attr, val) ==
    LET entry == <<Entered("not_contains", inst, attr, val)>>
    IN  IF val.cls # "dict" THEN Result(NoAttribute(val, "keys"), entry)
        ELSE LET num_matched_keys ==
                     NumMatchedKeys(self.closure.avoid_keys, val)
             IN  IF num_matched_keys > 0
                 THEN Result(ForbiddenKeysError(self, inst, attr,
                                                num_matched_keys),
                             entry)
                 ELSE LET r == Call(self.closure.func, inst, attr, val)
                      IN  Result(IF r.outcome.kind = "raise" THEN r.outcome
                                 ELSE Return(None),
                                 entry \o r.calls)

\* not_contains(instance, attribute, value), self being the closure.
not_contains(self, inst, attr, val) ==
    LET entry == <<Entered("not_contains", inst, attr, val)>>
    IN  IF val.cls # "dict" THEN Result(NoAttribute(val, "keys"), entry)
        ELSE LET num_matched_keys ==
                     NumMatchedKeys(self.closure.avoid_keys, val)
             IN  IF num_matched_keys > 0
                 THEN Result(ForbiddenKeysError(self, inst, attr,
                                                num_matched_keys),
                             entry)
                 ELSE LET r == Call(self.closure.func, inst, attr, val)
                      IN  Result(r.outcome, entry \o r.calls)

is_creation_model(inst, attr, val) ==
    LET entry == <<Entered("is_creation_model", inst, attr, val)>>
    IN  IF val.cls # "dict" THEN Result(NoAttribute(val, "get"), entry)
        ELSE
        LET creation_name == Get(val, "name", None)
        IN  IF ~isinstance(creation_name, "str")
            THEN Result(
                   Raise("ModelDataError",
                         Format(<<"'name' must be given as a string in the '",
                                  "{", "attr", "}", "' parameter of a '",
                                  "{", "cls", "}", "'. Given '",
                                  "{", "value", "}", "'">>,
                                <<>>,
                                [attr  |-> <<attr.name>>,
                                 cls   |-> <<ClassName(inst)>>,
                                 value |-> Str(creation_name)])),
                   entry)
            ELSE Result(Return(None), entry)

is_work_model(inst, attr, val) ==
    LET entry         == <<Entered("is_work_model", inst, attr, val)>>
        instance_name == ClassName(inst)
        creation      == is_creation_model(inst, attr, val)
        entered       == entry \o creation.calls
    IN  IF creation.outcome.kind = "raise"
        THEN Result(creation.outcome, entered)
        ELSE IF Contains(val, "manifestationOfWork")
        THEN Result(
               Raise("ModelDataError",
                     Format(<<"'manifestationOfWork' must not be given in the '",
                              "{", "attr", "}", "' parameter of a '",
                              "{", "cls", "}", "'">>,
                            <<>>,
                            [attr |-> <<attr.name>>,
                             cls  |-> <<instance_name>>])),
               entered)
        ELSE LET is_manifestation == Get(val, "isManifestation", PyFalse)
             IN  IF ~Is(is_manifestation, PyFalse)
                 THEN Result(
                        Raise("ModelDataError",
                              Format(<<"'isManifestation' must be False if given in the '",
                                       "{", "attr", "}", "' parameter of a '",
                                       "{", "cls", "}", "'. Given '",
                                       "{", "value", "}">>,
                                     <<>>,
                                     [attr  |-> <<attr.name>>,
                                      cls   |-> <<instance_name>>,
                                      value |-> Str(is_manifestation)])),
                        entered)
                 ELSE Result(Return(None), entered)

is_manifestation_model(inst, attr, val) ==
    LET entry         == <<Entered("is_manifestation_model", inst, attr, val)>>
        instance_name == ClassName(inst)
        creation      == is_creation_model(inst, attr, val)
        entered       == entry \o creation.calls
    IN  IF creation.outcome.kind = "raise"
        THEN Result(creation.outcome, entered)
        ELSE
        LET manifestation_of == Get(val, "manifestationOfWork", None)
        IN  IF ~isinstance(manifestation_of, "str")
            THEN Result(
                   Raise("ModelDataError",
                         Format(<<"'manifestationOfWork' must be given as a string in the '",
                                  "{", "attr", "}", "' parameter of a '",
                                  "{", "cls", "}", "'. Given '",
                                  "{", "value", "}", "'">>,
                                <<>>,
                                [attr  |-> <<attr.name>>,
                                 cls   |-> <<instance_name>>,
                                 value |-> Str(manifestation_of)])),
                   entered)
            ELSE LET is_manifestation == Get(val, "isManifestation", PyTrue)
                 IN  IF ~Is(is_manifestation, PyTrue)
                     THEN Result(
                            Raise("ModelDataError",
                                  Format(<<"'isManifestation' must be True if given in the '",
                                           "{", "attr", "}", "' parameter of a '",
                                           "{", "cls", "}", "'. Given '",
                                           "{", "value", "}", "'">>,
                                         <<>>,
                                         [attr  |-> <<attr.name>>,
                                          cls   |-> <<instance_name>>,
                                          value |-> Str(is_manifestation)])),
                            entered)
                     ELSE Result(Return(None), entered)

\* The loop of is_right_model over keys[i..]: the first key whose value is
\* not a string raises.
RECURSIVE RightKeysFrom(_, _, _, _, _)
RightKeysFrom(keys, i, inst, attr, val) ==
    IF i > Len(keys) THEN Return(None)
    ELSE LET key       == keys[i]
             key_value == Get(val, key, None)
         IN  IF ~isinstance(key_value, "str")
             THEN Raise("ModelDataError",
                        Format(<<"'", "{", "key", "}",
                                 "' must be given as a string in the '",
                                 "{", "attr", "}", "' parameter of a '",
                                 "{", "cls", "}", "'. Given '",
                                 "{", "value", "}", "'">>,
                               <<>>,
                               [key   |-> <<key>>,
                                attr  |-> <<attr.name>>,
                                cls   |-> <<ClassName(inst)>>,
                                value |-> Str(key_value)]))
             ELSE RightKeysFrom(keys, i + 1, inst, attr, val)

\* The function that the name is_right_model is bound to before it is
\* decorated.
is_right_model_wrapped(inst, attr, val) ==
    LET entry == <<Entered("is_right_model", inst, attr, val)>>
    IN  IF val.cls # "dict" THEN Result(NoAttribute(val, "get"), entry)
        ELSE Result(RightKeysFrom(<<"allowedBy", "license">>, 1, inst, attr, val),
                    entry)

\* The function that the name is_copyright_model is bound to before it is
\* decorated.
is_copyright_model_wrapped(inst, attr, val) ==
    LET entry == <<Entered("is_copyright_model", inst, attr, val)>>
    IN  IF val.cls # "dict" THEN Result(NoAttribute(val, "get"), entry)
        ELSE
        LET rights_of == Get(val, "rightsOf", None)
        IN  IF ~isinstance(rights_of, "str")
            THEN Result(
                   Raise("ModelDataError",
                         Format(<<"'rightsOf' must be given as a string in the '",
                                  "{", "attr", "}", "' parameter of a '",
                                  "{", "cls", "}", "'. Given '",
                                  "{", "value", "}", "'">>,
                                <<>>,
                                [attr  |-> <<attr.name>>,
                                 cls   |-> <<ClassName(inst)>>,
                                 value |-> Str(rights_of)])),
                   entry)
            ELSE Result(Return(None), entry)

\* @does_not_contain('rightsOf', error_cls=ModelDataError)
RightDecorated ==
    does_not_contain(<<"rightsOf">>, "ModelDataError",
                     PyFunction("is_right_model"))

\* The decorator of is_right_model copied onto is_copyright_model with
\* its key unchanged.
CopyrightDecoratedRightsOf ==
    does_not_contain(<<"rightsOf">>, "ModelDataError",
                     PyFunction("is_copyright_model"))

\* @does_not_contain('allowedBy', error_cls=ModelDataError)
CopyrightDecorated ==
    does_not_contain(<<"allowedBy">>, "ModelDataError",
                     PyFunction("is_copyright_model"))

\* The module's is_right_model: the decorated validator.
is_right_model(inst, attr, val) == not_contains(RightDecorated, inst, attr, val)

\* The module's is_copyright_model: the decorated validator.
is_copyright_model(inst, attr, val) ==
    not_contains(CopyrightDecorated, inst, attr, val)

(***************************************************************************)
(* Validators of the caller, which the combinators wrap or delegate to:    *)
(* one that accepts everything, one that returns a value, and one that     *)
(* rejects everything.                                                     *)
(***************************************************************************)
CallerValidator(f, inst, attr, val) ==
    Result(CASE f.repr = "accepts"     -> Return(None)
             [] f.repr = "returns_one" -> Return(PyObj("int", "1"))
             [] f.repr = "rejects"     -> Raise("ValueError", <<"rejected">>),
           <<Entered(f.repr, inst, attr, val)>>)

CallerValidatorNames == {"accepts", "returns_one", "rejects"}

\* f(instance, attribute, value) for an object f.
Call(f, inst, attr, val) ==
    IF ~callable(f) THEN Result(NotCallable(f), <<>>)
    ELSE CASE f.repr = "is_callable" -> is_callable(inst, attr, val)
           [] f.repr = "use_model_validator" ->
                  use_model_validator(f, inst, attr, val)
           [] f.repr = "not_contains" -> not_contains(f, inst, attr, val)
           [] f.repr = "is_creation_model" -> is_creation_model(inst, attr, val)
           [] f.repr = "is_work_model" -> is_work_model(inst, attr, val)
           [] f.repr = "is_manifestation_model" ->
                  is_manifestation_model(inst, attr, val)
           [] f.repr = "is_right_model" -> is_right_model_wrapped(inst, attr, val)
           [] f.repr = "is_copyright_model" ->
                  is_copyright_model_wrapped(inst, attr, val)
           [] f.repr \in CallerValidatorNames ->
                  CallerValidator(f, inst, attr, val)
           [] OTHER ->
                  \* a callable that does not take three arguments
                  Result(Raise("TypeError",
                               <<f.repr, " does not take 3 positional arguments">>),
                         <<>>)

(***************************************************************************)
(* The inputs of the checked calls.                                        *)
(***************************************************************************)
\* The keys the entity validators read.
Keys ==
    {"name", "manifestationOfWork", "isManifestation",
     "allowedBy", "license", "rightsOf"}

\* The values a key of a candidate mapping is given: None, the booleans,
\* the integers and strings that coerce to them, and an instance of a
\* subclass of str.
ItemValues ==
    {None, PyTrue, PyFalse, PyObj("int", "0"), PyObj("int", "1"),
     PyObj("str", ""), PyObj("str", "true"), PyObj("Title", "Song A")}

\* The mappings from at most n of the keys to the values.
Mappings(keys, values, n) ==
    UNION {[D -> values] : D \in {S \in SUBSET keys : Cardinality(S) <= n}}

\* Callables of every arity, and a class.
Callables ==
    {PyFunction("lambda: None"), PyFunction("lambda a, b, c: None"),
     PyObj("type", "dict"), PyFunction("is_callable"),
     use_model_attr("validator")}

\* Values that are no mapping.
Scalars == ItemValues \cup Callables

Attributes == {[name |-> "data"], [name |-> "validator"]}

\* An instance of a model class: its class name and the validators held
\* on its attributes.
Instance(cls, attrs) == [cls |-> cls, attrs |-> attrs]

NoAttrs == <<>>

TypeOK ==
    /\ pc \in {"ready", "done"}
    /\ attribute \in Attributes
    /\ outcome.kind \in {"none", "return", "raise"}
    /\ (pc = "ready") = (outcome = NoOutcome)

\* The step of calling validator f on the inputs.
Invoke(f, r) ==
    /\ pc = "ready"
    /\ pc' = "done"
    /\ validator' = f
    /\ outcome' = r.outcome
    /\ calls' = r.calls
    /\ UNCHANGED <<instance, attribute, value>>

(***************************************************************************)
(* Spec: the module's validators, each called on every candidate value.   *)
(***************************************************************************)
Init ==
    /\ pc = "ready"
    /\ instance \in {Instance("Work", NoAttrs)}
    /\ attribute \in Attributes
    /\ value \in {PyDict(m) : m \in Mappings(Keys, ItemValues, MaxKeys)}
                     \cup Scalars
    /\ validator = None
    /\ outcome = NoOutcome
    /\ calls = <<>>

Call_is_callable ==
    Invoke(PyFunction("is_callable"), is_callable(instance, attribute, value))

Call_is_creation_model ==
    Invoke(PyFunction("is_creation_model"),
           is_creation_model(instance, attribute, value))

Call_is_work_model ==
    Invoke(PyFunction("is_work_model"), is_work_model(instance, attribute, value))

Call_is_manifestation_model ==
    Invoke(PyFunction("is_manifestation_model"),
           is_manifestation_model(instance, attribute, value))

Call_is_right_model ==
    Invoke(RightDecorated, is_right_model(instance, attribute, value))

Call_is_copyright_model ==
    Invoke(CopyrightDecorated, is_copyright_model(instance, attribute, value))

Next ==
    \/ Call_is_callable
    \/ Call_is_creation_model
    \/ Call_is_work_model
    \/ Call_is_manifestation_model
    \/ Call_is_right_model
    \/ Call_is_copyright_model

Spec == Init /\ [][Next]_vars

(***************************************************************************)
(* SpecForbiddenKeys: validators built by does_not_contain from every      *)
(* tuple of forbidden keys, error class and wrapped validator.             *)
(***************************************************************************)
\* The values of the mappings the combinators are called on: the
\* combinators read the keys only.
CombinatorValues == {None, PyObj("str", "true")}

\* The key names that are forbidden.
AvoidKeyNames == {"rightsOf", "allowedBy", "isManifestation"}

\* The tuples of at most n of the names.
RECURSIVE Tuples(_, _)
Tuples(names, n) ==
    IF n = 0 THEN {<<>>}
    ELSE Tuples(names, n - 1)
             \cup {Append(t, k) : t \in Tuples(names, n - 1), k \in names}

\* error_cls=ValueError, the default, and the class the module passes.
DefaultErrorCls == "ValueError"

ErrorClasses == {DefaultErrorCls, "ModelDataError"}

\* The validators that are wrapped.
WrappedValidators ==
    {PyFunction(n) : n \in CallerValidatorNames}
        \cup {PyFunction("is_creation_model"), PyFunction("is_right_model")}

InitForbiddenKeys ==
    /\ pc = "ready"
    /\ instance \in {Instance("Right", NoAttrs), Instance("Copyright", NoAttrs)}
    /\ attribute \in Attributes
    /\ value \in {PyDict(m) : m \in Mappings(Keys, CombinatorValues, MaxKeys)}
                     \cup {None}
    /\ validator = None
    /\ outcome = NoOutcome
    /\ calls = <<>>

Call_not_contains ==
    \E avoid_keys \in Tuples(AvoidKeyNames, MaxAvoid),
       error_cls \in ErrorClasses,
       func \in WrappedValidators :
        LET f == does_not_contain(avoid_keys, error_cls, func)
        IN  Invoke(f, not_contains(f, instance, attribute, value))

NextForbiddenKeys == Call_not_contains

SpecForbiddenKeys == InitForbiddenKeys /\ [][NextForbiddenKeys]_vars

(***************************************************************************)
(* SpecDelegate: validators built by use_model_attr, called on instances   *)
(* that hold a validator, something else, or nothing on the attribute.     *)
(***************************************************************************)
AttrNames == {"validator", "data"}

\* What an attribute of an instance holds: a validator, or None.
HeldObjects ==
    {PyFunction(n) : n \in CallerValidatorNames}
        \cup {PyFunction("is_creation_model"), PyFunction("is_work_model"),
              PyFunction("is_callable"), None}

Instances ==
    {Instance("Work", attrs) :
        attrs \in UNION {[D -> HeldObjects] : D \in SUBSET AttrNames}}

InitDelegate ==
    /\ pc = "ready"
    /\ instance \in Instances
    /\ attribute \in Attributes
    /\ value \in {PyDict(m) : m \in Mappings(Keys, CombinatorValues, MaxKeys)}
                     \cup {None}
    /\ validator = None
    /\ outcome = NoOutcome
    /\ calls = <<>>

Call_use_model_validator ==
    \E attr \in AttrNames :
        LET f == use_model_attr(attr)
        IN  Invoke(f, use_model_validator(f, instance, attribute, value))

NextDelegate == Call_use_model_validator

SpecDelegate == InitDelegate /\ [][NextDelegate]_vars

(***************************************************************************)
(* The vocabulary of the properties.  They speak of the inputs and of      *)
(* what the call left behind, not of how the validators compute.           *)
(***************************************************************************)
\* Validator f has been called.
Done(f) == pc = "done" /\ validator = f

\* The candidate value is a field mapping.
IsMapping == value.cls = "dict"

Has(key) == key \in DOMAIN value.items

\* The object is a text string: a str, or an instance of a subclass.
IsText(obj) == obj.cls \in {"str", "Title"}

\* The object's runtime type is exactly str.
IsExactlyStr(obj) == obj.cls = "str"

TextAt(key) == Has(key) /\ IsText(value.items[key])

Returned == outcome.kind = "return"

Raised(exc) == outcome.kind = "raise" /\ outcome.exc = exc

\* The names of the functions entered during the call.
EnteredFns == {calls[i].fn : i \in DOMAIN calls}

\* The positions of the call at which fn was entered with the arguments
\* the validator itself was called with.
EntriesOf(fn) ==
    {i \in DOMAIN calls :
        calls[i] = Entered(fn, instance, attribute, value)}

\* The error is the one of the forbidden-keys check.
FromForbiddenKeysCheck ==
    /\ outcome.kind = "raise"
    /\ Len(outcome.msg) > 0
    /\ outcome.msg[1] = "Given keys ("

(***************************************************************************)
(* C1.  is_work_model, on every field mapping: it raises ModelDataError    *)
(* if 'manifestationOfWork' is a key (whatever its value, None included);  *)
(* it raises ModelDataError if 'isManifestation' is a key and its value    *)
(* is not the boolean False itself (0, None, '', 1, 'true' and True are    *)
(* rejected); otherwise, with a string 'name', it returns.                 *)
(***************************************************************************)
C1_WorkShape ==
    (Done(PyFunction("is_work_model")) /\ IsMapping) =>
        /\ Has("manifestationOfWork") => Raised("ModelDataError")
        /\ (Has("isManifestation") /\ value.items["isManifestation"] # PyFalse)
               => Raised("ModelDataError")
        /\ ( /\ ~Has("manifestationOfWork")
             /\ (Has("isManifestation")
                     => value.items["isManifestation"] = PyFalse)
             /\ TextAt("name") )
               => Returned

\* is_work_model rejected a mapping with a string name whose
\* isManifestation is the integer 0.
C1_Witness ==
    /\ Done(PyFunction("is_work_model")) /\ IsMapping
    /\ TextAt("name") /\ ~Has("manifestationOfWork")
    /\ Has("isManifestation")
    /\ value.items["isManifestation"] = PyObj("int", "0")
    /\ Raised("ModelDataError")

(***************************************************************************)
(* C2.  is_manifestation_model, on every field mapping: it returns exactly *)
(* when 'name' is a string, 'manifestationOfWork' is a key with a string   *)
(* value, and 'isManifestation' is absent or the boolean True itself; in   *)
(* every other case it raises ModelDataError.                              *)
(***************************************************************************)
C2_ManifestationShape ==
    (Done(PyFunction("is_manifestation_model")) /\ IsMapping) =>
        LET accepted ==
                /\ TextAt("name")
                /\ TextAt("manifestationOfWork")
                /\ (Has("isManifestation")
                        => value.items["isManifestation"] = PyTrue)
        IN  /\ accepted <=> Returned
            /\ ~accepted => Raised("ModelDataError")

\* is_manifestation_model accepted a mapping that gives 'isManifestation'
\* as True.
C2_Witness ==
    /\ Done(PyFunction("is_manifestation_model")) /\ IsMapping
    /\ TextAt("name") /\ TextAt("manifestationOfWork")
    /\ Has("isManifestation") /\ value.items["isManifestation"] = PyTrue
    /\ Returned

(***************************************************************************)
(* C3.  is_right_model, on every field mapping: with 'rightsOf' a key it   *)
(* raises ModelDataError from the forbidden-keys check, the wrapped        *)
(* function that reads 'allowedBy' and 'license' never being entered;      *)
(* without 'rightsOf' it raises ModelDataError when 'allowedBy' or         *)
(* 'license' is missing or no string, and returns when both are strings.   *)
(***************************************************************************)
C3_RightShape ==
    (Done(RightDecorated) /\ IsMapping) =>
        /\ Has("rightsOf") =>
               /\ Raised("ModelDataError")
               /\ FromForbiddenKeysCheck
               /\ "is_right_model" \notin EnteredFns
        /\ (~Has("rightsOf") /\ ~(TextAt("allowedBy") /\ TextAt("license")))
               => Raised("ModelDataError")
        /\ (~Has("rightsOf") /\ TextAt("allowedBy") /\ TextAt("license"))
               => Returned

\* is_right_model rejected a mapping that has 'rightsOf' and lacks
\* 'allowedBy'.
C3_Witness ==
    /\ Done(RightDecorated) /\ IsMapping
    /\ Has("rightsOf") /\ ~Has("allowedBy")
    /\ Raised("ModelDataError")

(***************************************************************************)
(* C4.  is_copyright_model, on every field mapping: with 'allowedBy' a key *)
(* (whatever its value) it raises ModelDataError from the forbidden-keys   *)
(* check, the wrapped function that reads 'rightsOf' never being entered;  *)
(* without 'allowedBy' it raises ModelDataError when 'rightsOf' is missing *)
(* or no string, and returns when 'rightsOf' is a string.                  *)
(***************************************************************************)
C4_CopyrightShape ==
    (Done(CopyrightDecorated) /\ IsMapping) =>
        /\ Has("allowedBy") =>
               /\ Raised("ModelDataError")
               /\ FromForbiddenKeysCheck
               /\ "is_copyright_model" \notin EnteredFns
        /\ (~Has("allowedBy") /\ ~TextAt("rightsOf"))
               => Raised("ModelDataError")
        /\ (~Has("allowedBy") /\ TextAt("rightsOf")) => Returned

\* is_copyright_model rejected a mapping whose 'rightsOf' is a string
\* because it has 'allowedBy', with the value None.
C4_Witness ==
    /\ Done(CopyrightDecorated) /\ IsMapping
    /\ TextAt("rightsOf")
    /\ Has("allowedBy") /\ value.items["allowedBy"] = None
    /\ Raised("ModelDataError")

(***************************************************************************)
(* C5, as stated.  is_creation_model, on every field mapping: it returns   *)
(* exactly when 'name' is a key and the runtime type of its value is       *)
(* exactly str; in every other case it raises ModelDataError.              *)
(***************************************************************************)
C5_ExactStrOnly ==
    (Done(PyFunction("is_creation_model")) /\ IsMapping) =>
        LET accepted == Has("name") /\ IsExactlyStr(value.items["name"])
        IN  /\ accepted <=> Returned
            /\ ~accepted => Raised("ModelDataError")

(***************************************************************************)
(* C5, amended.  is_creation_model, on every field mapping: it returns     *)
(* exactly when 'name' is a key and its value is an instance of str (a     *)
(* str or an instance of a subclass of str); in every other case it        *)
(* raises ModelDataError.                                                  *)
(***************************************************************************)
C5_CreationShape ==
    (Done(PyFunction("is_creation_model")) /\ IsMapping) =>
        LET accepted == TextAt("name")
        IN  /\ accepted <=> Returned
            /\ ~accepted => Raised("ModelDataError")

\* is_creation_model accepted a name that is an instance of a subclass of
\* str.
C5_Witness ==
    /\ Done(PyFunction("is_creation_model")) /\ IsMapping
    /\ Has("name") /\ value.items["name"].cls = "Title"
    /\ Returned

(***************************************************************************)
(* C6.  No field mapping is accepted by both is_work_model and             *)
(* is_manifestation_model, and none by both is_right_model and             *)
(* is_copyright_model: whenever one of a pair has accepted the value, the   *)
(* other one of the pair rejects it.                                       *)
(***************************************************************************)
C6_MutuallyExclusive ==
    (pc = "done" /\ IsMapping /\ Returned) =>
        /\ validator = PyFunction("is_work_model") =>
               is_manifestation_model(instance, attribute, value)
                   .outcome.kind = "raise"
        /\ validator = PyFunction("is_manifestation_model") =>
               is_work_model(instance, attribute, value).outcome.kind = "raise"
        /\ validator = RightDecorated =>
               is_copyright_model(instance, attribute, value)
                   .outcome.kind = "raise"
        /\ validator = CopyrightDecorated =>
               is_right_model(instance, attribute, value).outcome.kind = "raise"

\* is_manifestation_model accepted a mapping with a string
\* 'manifestationOfWork' and no 'isManifestation', which is_work_model
\* rejects.
C6_Witness ==
    /\ Done(PyFunction("is_manifestation_model")) /\ IsMapping /\ Returned
    /\ ~Has("isManifestation")
    /\ is_work_model(instance, attribute, value).outcome.kind = "raise"

(***************************************************************************)
(* C7.  A validator built by does_not_contain from avoid_keys, error_cls   *)
(* and a wrapped validator, on every field mapping: when a key of the     *)
(* mapping is among avoid_keys it raises error_cls and the wrapped         *)
(* validator is not entered; when none is, the wrapped validator is        *)
(* entered exactly once, with the same (instance, attribute, value), and   *)
(* the outcome (the value returned or the error raised) is the wrapped     *)
(* validator's.                                                            *)
(***************************************************************************)
C7_ForbiddenKeysThenDelegate ==
    (pc = "done" /\ validator.repr = "not_contains" /\ IsMapping) =>
        LET func    == validator.closure.func
            matched == Range(validator.closure.avoid_keys)
                           \cap DOMAIN value.items
        IN  /\ matched # {} =>
                   /\ Raised(validator.closure.error_cls)
                   /\ func.repr \notin EnteredFns
            /\ matched = {} =>
                   /\ Cardinality(EntriesOf(func.repr)) = 1
                   /\ Cardinality({i \in DOMAIN calls : calls[i].fn = func.repr})
                          = 1
                   /\ outcome = Call(func, instance, attribute, value).outcome

\* A built validator found no forbidden key and returned the value its
\* wrapped validator returned.
C7_Witness ==
    /\ pc = "done" /\ validator.repr = "not_contains" /\ IsMapping
    /\ validator.closure.avoid_keys # <<>>
    /\ Range(validator.closure.avoid_keys) \cap DOMAIN value.items = {}
    /\ validator.closure.func = PyFunction("returns_one")
    /\ Returned /\ outcome.value = PyObj("int", "1")

(***************************************************************************)
(* C8.  When a does_not_contain validator rejects a mapping, the message   *)
(* of the error tells how many forbidden keys were found, names the        *)
(* forbidden keys that were found, and names the attribute and the class   *)
(* of the instance.                                                        *)
(***************************************************************************)
C8_MessageListsForbiddenKeys ==
    (pc = "done" /\ validator.repr = "not_contains" /\ IsMapping) =>
        LET matched == Range(validator.closure.avoid_keys)
                           \cap DOMAIN value.items
        IN  matched # {} =>
                /\ outcome.kind = "raise"
                /\ ToString(Cardinality(matched)) \in Range(outcome.msg)
                /\ matched \subseteq Range(outcome.msg)
                /\ attribute.name \in Range(outcome.msg)
                /\ instance.cls \in Range(outcome.msg)

(***************************************************************************)
(* C9.  The validator use_model_attr(attr) returns, on every (instance,    *)
(* attribute, value): it calls what instance holds on attr with that same  *)
(* triple, raises the same error when that validator raises, and returns   *)
(* otherwise; when instance has no attribute attr, the AttributeError of   *)
(* the lookup comes out of the call.                                       *)
(***************************************************************************)
C9_DelegatesToSibling ==
    (pc = "done" /\ validator.repr = "use_model_validator") =>
        LET attr == validator.closure.attr
        IN  /\ attr \notin DOMAIN instance.attrs =>
                   /\ Raised("AttributeError")
                   /\ Len(calls) = 1
            /\ (attr \in DOMAIN instance.attrs
                    /\ callable(instance.attrs[attr])) =>
                   LET held == instance.attrs[attr]
                       r    == Call(held, instance, attribute, value)
                   IN  /\ Len(calls) >= 2
                       /\ calls[2] = Entered(held.repr, instance, attribute, value)
                       /\ r.outcome.kind = "raise" => outcome = r.outcome
                       /\ r.outcome.kind = "return" => Returned

\* The delegating validator raised the ValueError of the validator held
\* on the attribute.
C9_Witness ==
    /\ pc = "done" /\ validator.repr = "use_model_validator"
    /\ validator.closure.attr \in DOMAIN instance.attrs
    /\ instance.attrs[validator.closure.attr] = PyFunction("rejects")
    /\ Raised("ValueError")

(***************************************************************************)
(* C10.  is_callable raises a TypeError whose message names the attribute  *)
(* for every value that is not callable and returns for every callable,    *)
(* whatever its arity; no other validator of the module raises TypeError.  *)
(***************************************************************************)
C10_OnlyIsCallableRaisesTypeError ==
    pc = "done" =>
        /\ validator = PyFunction("is_callable") =>
               /\ value.cls \in {"function", "type"} => Returned
               /\ value.cls \notin {"function", "type"} =>
                      /\ Raised("TypeError")
                      /\ attribute.name \in Range(outcome.msg)
        /\ validator # PyFunction("is_callable") => ~Raised("TypeError")

\* is_callable rejected an integer.
C10_Witness ==
    /\ Done(PyFunction("is_callable"))
    /\ value = PyObj("int", "1")
    /\ Raised("TypeError")

=============================================================================
